---- MODULE Spec2Model ----
(***************************************************************************)
(* Transaction triage pipeline of the AML repository.                      *)
(*                                                                         *)
(* The store (database/mongo_handler.py) holds transactions with a         *)
(* processed flag and the SAR reports.  Two drivers run triage cycles over *)
(* it: the LangGraph workflow (workflows/aml_workflow.py: monitor ->       *)
(* detect -> generate_sar) and the drain loop of main.py                   *)
(* (run_simulation / process_single_transaction).                          *)
(*                                                                         *)
(* Besides the cycles, single functions are called directly (SpecCodec: the *)
(* feature encoder and the classifier adapter; SpecAgent: the history      *)
(* lookup and SARAgent.process_suspicious_transaction), each call recorded *)
(* with its argument and its result.                                       *)
(*                                                                         *)
(* Numbers: a confidence is kept in hundredths (80 is 0.80), a bank risk   *)
(* score in tenths (8 is 0.8); amounts, hours and codes are integers.      *)
(* A Python None / absent dict key is a value of its own kind, and an      *)
(* exception is a result with raised = TRUE.                               *)
(***************************************************************************)
EXTENDS Integers, Sequences, FiniteSets, TLC

\* ------------------------------------------------------------------ bounds
NumTx == 2
MaxCycles == 3
\* The longest feature vector handed to the classifier adapter, the calls one
\* behaviour makes of a pure function, and the largest limit of a history lookup.
MaxLen == 9
MaxCalls == 2
MaxLimit == 2

TxIds == 1..NumTx
Workers == {"A", "B"}

\* ----------------------------------------------------------------- the state
VARIABLES
    transactions,   \* the transactions collection: id -> document with its processed flag
    oracle,         \* id -> what the classifier answers on that transaction
    sar_reports,    \* the sar_reports collection, in insertion order
    model,          \* MLDetectorAgent.model after load_ml_model
    driver,         \* which entry point runs the cycles
    active,         \* the workers that run cycles
    faults,         \* whether calls of the store and of the narrative service may fail
    pc,             \* per worker: the node or statement to run next
    state,          \* per worker: the AMLState of the workflow cycle
    iter,           \* per worker: cycles started
    stats,          \* AMLSimulation.stats of main.py
    fetched,        \* per worker: the transaction the current cycle fetched (0: none)
    verdict,        \* per worker: the verdict the current cycle obtained
    pre,            \* per worker: the store as it was when the current cycle began
    score_log,      \* per worker and transaction: calls of the classifier adapter
    mark_log,       \* per worker and transaction: calls of mark_transaction_processed
    mark_errors,    \* per transaction: calls of mark_transaction_processed that raised
    flips,          \* per transaction: times processed went from false to true
    report_log,     \* per report, in insertion order: the worker that inserted it
    cycle_events,   \* per worker, of the current cycle: the fetch found the store down;
                    \* a node of the workflow raised
    probe           \* the direct calls of single functions made so far, with their results

\* ------------------------------------------------------- transaction records
\* A field value as the store returns it: a number, a string, a null (None, or
\* the NaN of an empty CSV cell read as a non-string), or an absent key.
Num(n) == [k |-> "num", n |-> n, s |-> ""]
Str(s) == [k |-> "str", n |-> 0, s |-> s]
Null == [k |-> "null", n |-> 0, s |-> ""]
Missing == [k |-> "missing", n |-> 0, s |-> ""]

\* dict.get(key, default): the default only for an absent key, a stored null
\* is returned as it is.
Get(v, default) == IF v.k = "missing" THEN default ELSE v

\* A timestamp string: an ISO string carries its hour and weekday (0 = Monday).
Iso(h, wd) == [k |-> "iso", hour |-> h, weekday |-> wd]
BadStamp == [k |-> "bad", hour |-> 0, weekday |-> 0]

GoodTx ==
    [Account |-> "ACC1", AmountReceived |-> Num(9500), AmountPaid |-> Num(9500),
     PaymentFormat |-> Str("WIRE"), FromBank |-> Str("Bank_A"),
     ToBank |-> Str("Bank_B"), Timestamp |-> Iso(10, 2),
     ReceivingCurrency |-> Str("USD"), PaymentCurrency |-> Str("USD")]

\* A CSV row with an empty payment-format cell.
NullFormatTx == [GoodTx EXCEPT !.PaymentFormat = Null, !.Account = "ACC2"]

\* A row whose amount column was read as text ("1,000.00").
BadAmountTx == [GoodTx EXCEPT !.AmountReceived = Str("1,000.00")]

\* A later transaction of the same account.
LaterTx == [GoodTx EXCEPT !.Timestamp = Iso(11, 3)]

\* A record with none of the keys the encoder reads (its timestamp default ''
\* is no ISO string).
MissingFieldsTx ==
    [Account |-> "Unknown", AmountReceived |-> Missing, AmountPaid |-> Missing,
     PaymentFormat |-> Missing, FromBank |-> Missing, ToBank |-> Missing,
     Timestamp |-> BadStamp, ReceivingCurrency |-> Missing,
     PaymentCurrency |-> Missing]

\* The transaction {Bank_A, ACC00000001, Bank_B, ACC00000002, 9500.00, USD,
\* WIRE}: it has no paid amount, no payment currency and no timestamp.
ScenarioTx ==
    [Account |-> "ACC00000001", AmountReceived |-> Num(9500), AmountPaid |-> Missing,
     PaymentFormat |-> Str("WIRE"), FromBank |-> Str("Bank_A"), ToBank |-> Str("Bank_B"),
     Timestamp |-> BadStamp, ReceivingCurrency |-> Str("USD"),
     PaymentCurrency |-> Missing]

\* A valid transaction: every field present with a value of its column's type.
Valid(tx) ==
    /\ tx.AmountReceived.k = "num" /\ tx.AmountPaid.k = "num"
    /\ tx.PaymentFormat.k = "str" /\ tx.FromBank.k = "str" /\ tx.ToBank.k = "str"
    /\ tx.ReceivingCurrency.k = "str" /\ tx.PaymentCurrency.k = "str"
    /\ tx.Timestamp.k = "iso"

\* What the opaque classifier answers on a transaction's features: the label of
\* predict (or an exception) and the larger class probability of predict_proba
\* (or an exception).
Answer(label, predictRaises, proba, probaRaises) ==
    [label |-> label, predictRaises |-> predictRaises,
     proba |-> proba, probaRaises |-> probaRaises]

\* The transactions a store may hold: a record and the classifier's answer on it.
TxCases ==
    { [doc |-> GoodTx, answer |-> Answer(0, FALSE, 90, FALSE)],
      [doc |-> GoodTx, answer |-> Answer(1, FALSE, 85, FALSE)],
      [doc |-> GoodTx, answer |-> Answer(1, TRUE, 0, FALSE)],
      [doc |-> GoodTx, answer |-> Answer(1, FALSE, 0, TRUE)],
      [doc |-> NullFormatTx, answer |-> Answer(1, FALSE, 85, FALSE)],
      [doc |-> BadAmountTx, answer |-> Answer(0, FALSE, 90, FALSE)] }

\* The classifier after load_ml_model: not loaded, or loaded with or without a
\* predict_proba method.
ModelKinds == {"none", "proba", "noproba"}

\* ------------------------------------------------------------ feature codec
\* float(x) of transaction_monitor.py: a number converts, a string that is no
\* number raises ValueError, None raises TypeError.
Float(v) ==
    IF v.k = "num" THEN [raised |-> FALSE, n |-> v.n] ELSE [raised |-> TRUE, n |-> 0]

\* encode_payment_format looking the string up as it is written.
Upper_as_written(s) == s

\* str.upper() on the payment formats the model uses.
Upper(s) ==
    CASE s = "wire" -> "WIRE"
      [] s = "Wire" -> "WIRE"
      [] s = "ach" -> "ACH"
      [] s = "check" -> "CHECK"
      [] s = "cash" -> "CASH"
      [] s = "crypto" -> "CRYPTO"
      [] s = "Crypto" -> "CRYPTO"
      [] s = "card" -> "CARD"
      [] s = "transfer" -> "TRANSFER"
      [] s = "bitcoin" -> "BITCOIN"
      [] OTHER -> s

format_mapping(s) ==
    CASE s = "WIRE" -> 1
      [] s = "ACH" -> 2
      [] s = "CHECK" -> 3
      [] s = "CASH" -> 4
      [] s = "CRYPTO" -> 5
      [] s = "CARD" -> 6
      [] s = "TRANSFER" -> 7
      [] OTHER -> 0

\* encode_payment_format: payment_format.upper() raises AttributeError on a
\* value that is no string.
encode_payment_format(v) ==
    IF v.k = "str"
    THEN [raised |-> FALSE, n |-> format_mapping(Upper(v.s))]
    ELSE [raised |-> TRUE, n |-> 0]

\* The bank names of the model whose lower-case form contains one of
\* 'offshore', 'private', 'anonymous', 'crypto'.
HighRiskNames == {"Offshore Trust", "PRIVATE Bank", "CryptoBank"}

\* calculate_bank_risk_score, in tenths; bank.lower() raises on a non-string.
calculate_bank_risk_score(v) ==
    IF v.k = "str"
    THEN [raised |-> FALSE, n |-> IF v.s \in HighRiskNames THEN 8 ELSE 3]
    ELSE [raised |-> TRUE, n |-> 0]

\* extract_hour_from_timestamp reading the clock instead of the timestamp: the
\* hour moves on with every call made.
extract_hour_from_timestamp_now(ts) == 10 + Len(probe)

\* extract_hour_from_timestamp: every failure is swallowed into the default.
extract_hour_from_timestamp(ts) == IF ts.k = "iso" THEN ts.hour ELSE 12

\* extract_day_of_week_from_timestamp (1 = Monday).
extract_day_of_week_from_timestamp(ts) == IF ts.k = "iso" THEN ts.weekday + 1 ELSE 1

\* prepare_transaction_for_ml: the list literal is built entry by entry, the
\* first conversion that raises aborts it.
prepare_transaction_for_ml(tx) ==
    LET recv == Float(Get(tx.AmountReceived, Num(0)))
        paid == Float(Get(tx.AmountPaid, Num(0)))
        fmt == encode_payment_format(Get(tx.PaymentFormat, Str("")))
        rfrom == calculate_bank_risk_score(Get(tx.FromBank, Str("")))
        rto == calculate_bank_risk_score(Get(tx.ToBank, Str("")))
        diff == IF Get(tx.ReceivingCurrency, Str("")) # Get(tx.PaymentCurrency, Str(""))
                THEN 1 ELSE 0
    IN  IF recv.raised \/ paid.raised \/ fmt.raised \/ rfrom.raised \/ rto.raised
        THEN [raised |-> TRUE, features |-> << >>]
        ELSE [raised |-> FALSE,
              features |-> << recv.n, paid.n, fmt.n, rfrom.n, rto.n,
                              extract_hour_from_timestamp(tx.Timestamp),
                              extract_day_of_week_from_timestamp(tx.Timestamp),
                              diff >>]

\* The column each entry of the list of prepare_transaction_for_ml is
\* computed from, in the order of the list.
EncoderFields ==
    << "Amount Received", "Amount Paid", "Payment Format", "From Bank", "To Bank",
       "Timestamp", "Timestamp", "Receiving Currency" >>

\* ------------------------------------------------------- classifier adapter
\* The 7-feature structure of the model as test_model lists it.
ExpectedFields ==
    << "From Bank", "Account", "To Bank", "Account.1", "Amount Received",
       "Receiving Currency", "Payment Format" >>

\* A verdict dict.  prediction_value is -1 where the dict has no such key and
\* error is "" where the dict has no error key.
Verdict(isl, conf, pv, err) ==
    [is_laundering |-> isl, confidence |-> conf, prediction_value |-> pv, error |-> err]

\* The length normalisation without its else branch: a long vector is passed on
\* as it is.
NormalizeFeatures_pad_only(features) ==
    IF Len(features) < 7
    THEN features \o [i \in 1..(7 - Len(features)) |-> 0]
    ELSE features

\* The length normalisation of predict_money_laundering: pad with 0.0 or
\* truncate to the first 7 entries.
NormalizeFeatures(features) ==
    IF Len(features) < 7
    THEN features \o [i \in 1..(7 - Len(features)) |-> 0]
    ELSE SubSeq(features, 1, 7)

\* The try block deriving is_laundering from any label that is not 0.
ScoreFeatures_nonzero(kind, features, answer) ==
    LET passed == NormalizeFeatures(features)
    IN  IF answer.predictRaises \/ (kind = "proba" /\ answer.probaRaises)
        THEN [raised |-> TRUE, invoked |-> TRUE, passed |-> passed,
              verdict |-> Verdict(FALSE, 0, -1, "")]
        ELSE [raised |-> FALSE, invoked |-> TRUE, passed |-> passed,
              verdict |->
                  Verdict(answer.label # 0,
                          IF kind = "proba" THEN answer.proba
                          ELSE IF answer.label = 1 THEN 80 ELSE 20,
                          answer.label, "")]

\* The try block without the inner try/except of the else branch: the
\* AttributeError of a model without predict_proba leaves the block.
ScoreFeatures_proba_required(kind, features, answer) ==
    LET passed == NormalizeFeatures(features)
    IN  IF answer.predictRaises \/ kind = "noproba" \/ answer.probaRaises
        THEN [raised |-> TRUE, invoked |-> TRUE, passed |-> passed,
              verdict |-> Verdict(FALSE, 0, -1, "")]
        ELSE [raised |-> FALSE, invoked |-> TRUE, passed |-> passed,
              verdict |-> Verdict(answer.label = 1, answer.proba, answer.label, "")]

\* The body of the try block of predict_money_laundering on a loaded model of
\* the given kind that answers as `answer` says: normalise the length, call
\* predict, then predict_proba.  A model without predict_proba takes the else
\* branch, whose own try/except turns the AttributeError into the fallback
\* confidence.  raised is TRUE when an exception leaves the block.
ScoreFeatures(kind, features, answer) ==
    LET passed == NormalizeFeatures(features)
    IN  IF answer.predictRaises \/ (kind = "proba" /\ answer.probaRaises)
        THEN [raised |-> TRUE, invoked |-> TRUE, passed |-> passed,
              verdict |-> Verdict(FALSE, 0, -1, "")]
        ELSE [raised |-> FALSE, invoked |-> TRUE, passed |-> passed,
              verdict |->
                  Verdict(answer.label = 1,
                          IF kind = "proba" THEN answer.proba
                          ELSE IF answer.label = 1 THEN 80 ELSE 20,
                          answer.label, "")]

\* predict_money_laundering without its except clause: an exception of the
\* model leaves the method.
predict_money_laundering_uncaught(kind, features, answer) ==
    IF kind = "none"
    THEN [raised |-> FALSE, invoked |-> FALSE, passed |-> << >>,
          verdict |-> Verdict(FALSE, 0, -1, "Model not loaded")]
    ELSE ScoreFeatures(kind, features, answer)

\* predict_money_laundering without the test of self.model: the try block
\* runs whether a model was loaded or not.
predict_money_laundering_unguarded(kind, features, answer) ==
    LET r == ScoreFeatures(kind, features, answer)
    IN  IF r.raised
        THEN [r EXCEPT !.raised = FALSE, !.verdict = Verdict(FALSE, 0, -1, "exception")]
        ELSE r

\* predict_money_laundering(features): no model gives the "Model not loaded"
\* verdict; any exception of the try block becomes an error verdict.
predict_money_laundering(kind, features, answer) ==
    IF kind = "none"
    THEN [raised |-> FALSE, invoked |-> FALSE, passed |-> << >>,
          verdict |-> Verdict(FALSE, 0, -1, "Model not loaded")]
    ELSE LET r == ScoreFeatures(kind, features, answer)
         IN  IF r.raised
             THEN [r EXCEPT !.raised = FALSE,
                            !.verdict = Verdict(FALSE, 0, -1, "exception")]
             ELSE r

\* ---------------------------------------------------------------- the store
\* get_unprocessed_transactions(limit): find({"processed": False}).limit(limit),
\* in the collection's natural (insertion) order.
RECURSIVE Unprocessed(_, _)
Unprocessed(txs, from) ==
    IF from > Len(txs) THEN << >>
    ELSE IF ~txs[from].processed THEN << from >> \o Unprocessed(txs, from + 1)
    ELSE Unprocessed(txs, from + 1)

\* get_unprocessed_transactions ordering by the flag instead of filtering on
\* it: the unprocessed transactions first, then the processed ones.
get_unprocessed_transactions_sorted(txs, limit) ==
    LET all == Unprocessed(txs, 1)
                 \o SelectSeq([i \in 1..NumTx |-> i], LAMBDA i : txs[i].processed)
    IN  SubSeq(all, 1, IF Len(all) < limit THEN Len(all) ELSE limit)

get_unprocessed_transactions(txs, limit) ==
    LET all == Unprocessed(txs, 1)
    IN  SubSeq(all, 1, IF Len(all) < limit THEN Len(all) ELSE limit)

\* mark_transaction_processed updating the newest document of the collection
\* instead of the one with the given _id.
mark_transaction_processed_latest(txs, id, storeUp) ==
    IF ~storeUp THEN [raised |-> TRUE, txs |-> txs]
    ELSE [raised |-> FALSE, txs |-> [txs EXCEPT ![Len(txs)].processed = TRUE]]

\* mark_transaction_processed as an update_many on an empty filter: every
\* transaction of the collection is set processed.
mark_transaction_processed_every(txs, id, storeUp) ==
    IF ~storeUp
    THEN [raised |-> TRUE, txs |-> txs]
    ELSE [raised |-> FALSE, txs |-> [t \in DOMAIN txs |-> [txs[t] EXCEPT !.processed = TRUE]]]

\* mark_transaction_processed writing the flag before the store reports its
\* failure.
mark_transaction_processed_then_fail(txs, id, storeUp) ==
    [raised |-> ~storeUp,
     txs |-> IF id \in DOMAIN txs THEN [txs EXCEPT ![id].processed = TRUE] ELSE txs]

\* mark_transaction_processed flipping the flag instead of setting it.
mark_transaction_processed_toggle(txs, id, storeUp) ==
    IF ~storeUp THEN [raised |-> TRUE, txs |-> txs]
    ELSE [raised |-> FALSE,
          txs |-> IF id \in DOMAIN txs THEN [txs EXCEPT ![id].processed = ~@] ELSE txs]

\* mark_transaction_processed: update_one({"_id": id}, {"$set": {"processed": True}}).
\* The call raises only when the store cannot be reached; an id that matches
\* no document updates nothing.
mark_transaction_processed(txs, id, storeUp) ==
    IF ~storeUp THEN [raised |-> TRUE, txs |-> txs]
    ELSE [raised |-> FALSE,
          txs |-> IF id \in DOMAIN txs THEN [txs EXCEPT ![id].processed = TRUE] ELSE txs]

\* save_sar_report as a replace_one with upsert on an empty filter: the new
\* report takes the place of the stored one.
save_sar_report_replace(reports, sar_data) == << sar_data >>

\* save_sar_report: insert_one; the identifier is the place in the collection.
save_sar_report(reports, sar_data) == Append(reports, sar_data)

\* The instant of a timestamp, the key the history is sorted by.
Instant(ts) == IF ts.k = "iso" THEN ts.weekday * 24 + ts.hour ELSE 0

\* The ids of `ids` in descending order of timestamp (equal timestamps in
\* insertion order).
RECURSIVE SortDescending(_, _)
SortDescending(txs, ids) ==
    IF ids = {} THEN << >>
    ELSE LET first == CHOOSE t \in ids : \A u \in ids :
                         \/ Instant(txs[t].doc.Timestamp) > Instant(txs[u].doc.Timestamp)
                         \/ /\ Instant(txs[t].doc.Timestamp) = Instant(txs[u].doc.Timestamp)
                            /\ t <= u
         IN  << first >> \o SortDescending(txs, ids \ {first})

\* get_account_transactions without its filter: find({}) over every account.
get_account_transactions_any_account(txs, account_id, limit) ==
    LET all == SortDescending(txs, DOMAIN txs)
    IN  SubSeq(all, 1, IF Len(all) < limit THEN Len(all) ELSE limit)

\* get_account_transactions without its sort: the account's transactions in
\* insertion order.
get_account_transactions_unsorted(txs, account_id, limit) ==
    LET all == SelectSeq([i \in 1..NumTx |-> i], LAMBDA t : txs[t].doc.Account = account_id)
    IN  SubSeq(all, 1, IF Len(all) < limit THEN Len(all) ELSE limit)

\* get_account_transactions: find({"Account": id}).sort("Timestamp", DESCENDING).limit(limit)
get_account_transactions(txs, account_id, limit) ==
    LET all == SortDescending(txs, {t \in DOMAIN txs : txs[t].doc.Account = account_id})
    IN  SubSeq(all, 1, IF Len(all) < limit THEN Len(all) ELSE limit)

\* ------------------------------------------------------------ report assembly
\* get_account_history_tool: a store failure gives the empty list.
get_account_history_tool(txs, account_id, storeUp) ==
    IF storeUp THEN get_account_transactions(txs, account_id, 10) ELSE << >>

\* f"{tx.get('Amount Received', 0):,.2f}": the format raises on an amount
\* that is no number (a string or None).
FormatsAmount(tx) == Get(tx.AmountReceived, Num(0)).k = "num"

\* format_transaction_history_tool: the fixed text for an empty history, else
\* one block per transaction; formatting an amount may raise.
format_transaction_history_tool(txs, history) ==
    IF history = << >>
    THEN [raised |-> FALSE, text |-> "No transaction history available."]
    ELSE IF \A i \in DOMAIN history : FormatsAmount(txs[history[i]].doc)
         THEN [raised |-> FALSE, text |-> "formatted history"]
         ELSE [raised |-> TRUE, text |-> ""]

\* generate_sar_report_tool with a chat failure leaving the tool.
generate_sar_report_tool_uncaught(tx, llmUp) ==
    IF ~FormatsAmount(tx) THEN [raised |-> TRUE, called |-> FALSE, text |-> ""]
    ELSE IF llmUp THEN [raised |-> FALSE, called |-> TRUE, text |-> "narrative"]
    ELSE [raised |-> TRUE, called |-> TRUE, text |-> ""]

\* generate_sar_report_tool: the prompt is built outside the try (formatting
\* the flagged amount may raise); a failure of the chat call becomes the text.
generate_sar_report_tool(tx, llmUp) ==
    IF ~FormatsAmount(tx) THEN [raised |-> TRUE, called |-> FALSE, text |-> ""]
    ELSE IF llmUp THEN [raised |-> FALSE, called |-> TRUE, text |-> "narrative"]
    ELSE [raised |-> FALSE, called |-> TRUE, text |-> "Error generating SAR report"]

\* save_sar_report_tool returning the identifier it expected even though the
\* insert failed.
save_sar_report_tool_id_anyway(reports, txs, id, sar_content, ml_confidence, account_id, storeUp) ==
    [reports |-> reports, sar_id |-> Len(reports) + 1]

\* save_sar_report_tool: builds sar_data and inserts it; a store failure gives
\* the identifier "" (0) and no report.
save_sar_report_tool(reports, txs, id, sar_content, ml_confidence, account_id, storeUp) ==
    LET tx == txs[id].doc
        sar_data == [account_id |-> account_id,
                     flagged_transaction_id |-> id,
                     from_bank |-> Get(tx.FromBank, Str("")),
                     to_bank |-> Get(tx.ToBank, Str("")),
                     amount |-> Get(tx.AmountReceived, Num(0)),
                     currency |-> Get(tx.ReceivingCurrency, Str("")),
                     payment_format |-> Get(tx.PaymentFormat, Str("")),
                     ml_confidence |-> ml_confidence,
                     sar_content |-> sar_content,
                     status |-> "PENDING_REVIEW"]
    IN  IF storeUp
        THEN [reports |-> save_sar_report(reports, sar_data), sar_id |-> Len(reports) + 1]
        ELSE [reports |-> reports, sar_id |-> 0]

\* SARAgent._agent_node: history, its text, the narrative, the insert, the
\* result.  An exception of a step leaves the node before the later steps.
\* account_history, history_text and llm_called are the node's locals.
agent_node(reports, txs, id, ml_confidence, historyUp, llmUp, saveUp) ==
    LET account_id == txs[id].doc.Account
        account_history == get_account_history_tool(txs, account_id, historyUp)
        history_text == format_transaction_history_tool(txs, account_history)
        sar_content == generate_sar_report_tool(txs[id].doc, llmUp)   \* prompted with history_text
        saved == save_sar_report_tool(reports, txs, id, sar_content.text, ml_confidence,
                                      account_id, saveUp)
        failed == [raised |-> TRUE, reports |-> reports,
                   account_history |-> account_history,
                   history_text |-> history_text.text, llm_called |-> FALSE,
                   result |-> [sar_id |-> 0, account_id |-> account_id,
                               sar_content |-> "", transaction_count |-> 0]]
    IN  IF history_text.raised THEN failed
        ELSE IF sar_content.raised
        THEN [failed EXCEPT !.llm_called = sar_content.called]
        ELSE [raised |-> FALSE, reports |-> saved.reports,
              account_history |-> account_history,
              history_text |-> history_text.text, llm_called |-> TRUE,
              result |-> [sar_id |-> saved.sar_id, account_id |-> account_id,
                          sar_content |-> sar_content.text,
                          transaction_count |-> Len(account_history)]]

\* Config.TRANSACTION_BATCH_SIZE
TRANSACTION_BATCH_SIZE == 1

\* ------------------------------------------------------- the state, continued
vars == << transactions, oracle, sar_reports, model, driver, active, pc, state,
           iter, stats, fetched, verdict, pre, score_log, mark_log, mark_errors,
           flips, report_log, faults, cycle_events, probe >>

\* The classifier, what it answers, and who runs.
setting == << oracle, model, driver, active, faults >>

\* What a triage cycle never changes: the setting and the record of direct calls.
env == << setting, probe >>

\* The state of the drivers and their cycles.
cycles == << pc, state, iter, stats, fetched, verdict, pre, score_log, mark_log,
             mark_errors, flips, report_log, cycle_events >>

\* The outcomes of one call of an external service: up, or (where faults are
\* possible) down.
Availability == IF faults THEN BOOLEAN ELSE {TRUE}

\* A verdict that is None / not there.
NoPrediction == Verdict(FALSE, 0, -1, "")

\* The AMLState of workflow.invoke({}): every key absent.  current_transaction
\* 0 is None, sar_id 0 is "", error "" is no error.
EmptyState ==
    [current_transaction |-> 0, ml_features |-> << >>, has_transaction |-> FALSE,
     ml_prediction |-> NoPrediction, requires_investigation |-> FALSE,
     sender_account |-> "", sar_generated |-> FALSE, sar_id |-> 0,
     sar_content |-> "", error |-> ""]

\* AMLWorkflow.run: an exception of any node gives {"error": str(e)}.
ErrorResult == [EmptyState EXCEPT !.error = "exception"]

\* AMLWorkflow.run without its try/except: the exception of a node leaves run
\* and ends run_continuous.
run_uncaught(raised, result) == [crashed |-> raised, result |-> result]

\* AMLWorkflow.run around a node that raised or returned `result`.
run(raised, result) ==
    [crashed |-> FALSE, result |-> IF raised THEN ErrorResult ELSE result]

Snapshot == [transactions |-> transactions, reports |-> sar_reports,
             scored |-> score_log, marked |-> mark_log, mark_errors |-> mark_errors,
             flips |-> flips]

ZeroLog == [w \in Workers |-> [t \in TxIds |-> 0]]

\* A cycle in which no fetch failed and no node raised.
NoEvents == [fetch_failed |-> FALSE, raised |-> FALSE]

\* Nothing has run yet over the loaded store.
InitCycles ==
    /\ sar_reports = << >>
    /\ pc = [w \in Workers |-> "idle"]
    /\ state = [w \in Workers |-> EmptyState]
    /\ iter = [w \in Workers |-> 0]
    /\ stats = [processed |-> 0, suspicious |-> 0, clean |-> 0,
                sars_generated |-> 0, errors |-> 0]
    /\ fetched = [w \in Workers |-> 0]
    /\ verdict = [w \in Workers |-> NoPrediction]
    /\ score_log = ZeroLog
    /\ mark_log = ZeroLog
    /\ mark_errors = [t \in TxIds |-> 0]
    /\ flips = [t \in TxIds |-> 0]
    /\ pre = [w \in Workers |-> Snapshot]
    /\ report_log = << >>
    /\ cycle_events = [w \in Workers |-> NoEvents]
    /\ probe = << >>

InitStore ==
    /\ \E cases \in [TxIds -> TxCases] :
          /\ transactions = [t \in TxIds |-> [doc |-> cases[t].doc, processed |-> FALSE]]
          /\ oracle = [t \in TxIds |-> cases[t].answer]
    /\ model \in ModelKinds
    /\ InitCycles

\* One driver running its cycles one after the other, over a store and a
\* narrative service whose calls may fail.
Init ==
    /\ InitStore
    /\ driver \in {"workflow", "simulation"}
    /\ active = {"A"}
    /\ faults = TRUE

\* ------------------------------------------------------ the workflow's cycle
\* should_process_transaction
should_process_transaction(st) == IF st.has_transaction THEN "process" ELSE "skip"

\* should_generate_sar ending every cycle after the detect node.
should_generate_sar_never(st) == "clean"

\* should_generate_sar sending every scored transaction to the report step.
should_generate_sar_always(st) == "generate_sar"

\* should_generate_sar
should_generate_sar(st) == IF st.requires_investigation THEN "generate_sar" ELSE "clean"

\* TransactionMonitorAgent.monitor_new_transactions: a store failure is
\* swallowed into the empty list.
monitor_new_transactions(txs, storeUp) ==
    IF storeUp THEN get_unprocessed_transactions(txs, TRANSACTION_BATCH_SIZE) ELSE << >>

\* TransactionMonitorAgent.__call__: the state update of the monitor node, or
\* raised when the encoding of the first transaction raises.
MonitorUpdate(txs, storeUp) ==
    LET found == monitor_new_transactions(txs, storeUp)
    IN  IF found # << >>
        THEN LET enc == prepare_transaction_for_ml(txs[found[1]].doc)
             IN  [raised |-> enc.raised, fetched |-> found[1],
                  update |-> [EmptyState EXCEPT !.current_transaction = found[1],
                                                !.ml_features = enc.features,
                                                !.has_transaction = TRUE]]
        ELSE [raised |-> FALSE, fetched |-> 0, update |-> EmptyState]

\* The step of run_continuous / run that starts a cycle with the monitor node
\* and follows its conditional edge.
monitor_transactions(w) ==
    /\ w \in active
    /\ driver = "workflow"
    /\ pc[w] \in {"idle", "END"}
    /\ iter[w] < MaxCycles
    /\ \E storeUp \in Availability :
          LET m == MonitorUpdate(transactions, storeUp)
              r == run(m.raised, m.update)
          IN  /\ state' = [state EXCEPT ![w] = r.result]
              /\ pc' = [pc EXCEPT ![w] =
                           IF r.crashed THEN "crashed"
                           ELSE IF m.raised THEN "END"
                           ELSE IF should_process_transaction(m.update) = "process"
                                THEN "detect_laundering" ELSE "END"]
              /\ fetched' = [fetched EXCEPT ![w] = m.fetched]
              /\ cycle_events' = [cycle_events EXCEPT ![w] =
                                     [fetch_failed |-> ~storeUp, raised |-> m.raised]]
    /\ iter' = [iter EXCEPT ![w] = @ + 1]
    /\ verdict' = [verdict EXCEPT ![w] = NoPrediction]
    /\ pre' = [pre EXCEPT ![w] = Snapshot]
    /\ UNCHANGED << transactions, sar_reports, stats, score_log, mark_log, mark_errors, flips,
                    report_log, env >>

\* The store after mark_transaction_processed(id) was called while the store
\* was up or down, and the ghost counters of the call.
MarkCall(w, id, storeUp) ==
    LET m == mark_transaction_processed(transactions, id, storeUp)
    IN  /\ transactions' = m.txs
        /\ mark_log' = [mark_log EXCEPT ![w][id] = @ + 1]
        /\ mark_errors' = [mark_errors EXCEPT ![id] = IF m.raised THEN @ + 1 ELSE @]
        /\ flips' = [flips EXCEPT ![id] =
                        IF ~transactions[id].processed /\ m.txs[id].processed
                        THEN @ + 1 ELSE @]

\* MLDetectorAgent.__call__ as the detect node, and the conditional edge after it.
detect_laundering(w) ==
    /\ w \in active
    /\ pc[w] = "detect_laundering"
    /\ LET st == state[w]
           id == st.current_transaction
       IN  IF ~st.has_transaction \/ st.ml_features = << >>
           THEN /\ state' = [state EXCEPT ![w].ml_prediction = NoPrediction,
                                          ![w].requires_investigation = FALSE]
                /\ pc' = [pc EXCEPT ![w] = "END"]
                /\ UNCHANGED << transactions, verdict, score_log, mark_log, mark_errors,
                                flips, cycle_events >>
           ELSE LET r == predict_money_laundering(model, st.ml_features, oracle[id])
                IN  /\ score_log' = [score_log EXCEPT ![w][id] = @ + 1]
                    /\ IF r.raised
                       THEN /\ state' = [state EXCEPT ![w] = run(TRUE, st).result]
                            /\ pc' = [pc EXCEPT ![w] =
                                  IF run(TRUE, st).crashed THEN "crashed" ELSE "END"]
                            /\ cycle_events' = [cycle_events EXCEPT ![w].raised = TRUE]
                            /\ UNCHANGED << transactions, verdict, mark_log, mark_errors, flips >>
                       ELSE /\ \E storeUp \in Availability : MarkCall(w, id, storeUp)
                            /\ verdict' = [verdict EXCEPT ![w] = r.verdict]
                            /\ UNCHANGED cycle_events
                            /\ LET next == [st EXCEPT
                                       !.ml_prediction = r.verdict,
                                       !.requires_investigation = r.verdict.is_laundering,
                                       !.sender_account = transactions[id].doc.Account]
                               IN  /\ state' = [state EXCEPT ![w] = next]
                                   /\ pc' = [pc EXCEPT ![w] =
                                         IF should_generate_sar(next) = "generate_sar"
                                         THEN "generate_sar" ELSE "END"]
    /\ UNCHANGED << sar_reports, iter, stats, fetched, pre, report_log, env >>

\* The generate_sar node: history of the sender account, narrative, insert.
generate_sar(w) ==
    /\ w \in active
    /\ pc[w] = "generate_sar"
    /\ \E historyUp \in Availability, llmUp \in Availability, saveUp \in Availability :
          LET st == state[w]
              a == agent_node(sar_reports, transactions, st.current_transaction,
                              st.ml_prediction.confidence, historyUp, llmUp, saveUp)
              r == run(a.raised,
                       [st EXCEPT !.sar_generated = (a.result.sar_id # 0),
                                  !.sar_id = a.result.sar_id,
                                  !.sar_content = a.result.sar_content])
          IN  /\ sar_reports' = a.reports
              /\ report_log' = IF Len(a.reports) > Len(sar_reports)
                               THEN Append(report_log, w) ELSE report_log
              /\ state' = [state EXCEPT ![w] = r.result]
              /\ pc' = [pc EXCEPT ![w] = IF r.crashed THEN "crashed" ELSE "END"]
              /\ cycle_events' = [cycle_events EXCEPT ![w].raised = a.raised]
    /\ UNCHANGED << transactions, iter, stats, fetched, verdict, pre, score_log,
                    mark_log, mark_errors, flips, env >>

WorkflowNext(w) ==
    \/ monitor_transactions(w)
    \/ detect_laundering(w)
    \/ generate_sar(w)

\* --------------------------------------------------- the drain loop of main.py
\* MLDetectorAgent.predict(transaction) of the detector main.py is written
\* for: encode the transaction into its 7 features (total, defaults for what
\* cannot be encoded) and score them.
predict(kind, tx, answer) ==
    LET amount == Get(tx.AmountReceived, Num(0))
        features == << 0, 0, 0, 0, IF amount.k = "num" THEN amount.n ELSE 0, 0, 0 >>
    IN  predict_money_laundering(kind, features, answer)

\* self.stats[key] += 1 written as an increment by two.
Bump_by_two(st, key) == [st EXCEPT ![key] = @ + 2]

Bump(st, key) == [st EXCEPT ![key] = @ + 1]

\* run_simulation up to its loop: nothing unprocessed returns at once; a store
\* failure of get_statistics leaves run_simulation with the exception.
run_simulation(w) ==
    /\ w \in active
    /\ driver = "simulation"
    /\ pc[w] = "idle"
    /\ \E storeUp \in Availability :
          pc' = [pc EXCEPT ![w] =
                    IF storeUp /\ Unprocessed(transactions, 1) # << >>
                    THEN "sim_loop" ELSE "sim_done"]
    /\ UNCHANGED << transactions, sar_reports, state, iter, stats, fetched, verdict,
                    pre, score_log, mark_log, mark_errors, flips, report_log,
                    cycle_events, env >>

\* The head of the while loop: fetch one unprocessed transaction or stop.
sim_fetch(w) ==
    /\ w \in active
    /\ pc[w] = "sim_loop"
    /\ iter[w] < MaxCycles
    /\ \E storeUp \in Availability :
          LET found == IF storeUp THEN get_unprocessed_transactions(transactions, 1)
                       ELSE << >>
          IN  /\ pc' = [pc EXCEPT ![w] = IF found # << >> THEN "sim_process"
                                         ELSE "sim_done"]
              /\ fetched' = [fetched EXCEPT ![w] = IF found # << >> THEN found[1] ELSE 0]
              /\ cycle_events' = [cycle_events EXCEPT ![w] =
                                     [fetch_failed |-> ~storeUp, raised |-> FALSE]]
    /\ iter' = [iter EXCEPT ![w] = @ + 1]
    /\ verdict' = [verdict EXCEPT ![w] = NoPrediction]
    /\ pre' = [pre EXCEPT ![w] = Snapshot]
    /\ UNCHANGED << transactions, sar_reports, state, stats, score_log, mark_log, mark_errors,
                    flips, report_log, env >>

\* process_single_transaction(transactions[0]), the whole try block.
process_single_transaction(w) ==
    /\ w \in active
    /\ pc[w] = "sim_process"
    /\ LET id == fetched[w]
           tx == transactions[id].doc
           amount == Get(tx.AmountReceived, Num(0))
           ml_result == predict(model, tx, oracle[id])
           v == ml_result.verdict
       IN  IF amount.k # "num"
           THEN \* the progress line cannot format the amount: except branch
                /\ stats' = Bump(stats, "errors")
                /\ UNCHANGED << transactions, sar_reports, verdict, score_log,
                                mark_log, mark_errors, flips, report_log >>
           ELSE /\ score_log' = [score_log EXCEPT ![w][id] = @ + 1]
                /\ IF ml_result.raised
                   THEN /\ stats' = Bump(stats, "errors")
                        /\ UNCHANGED << transactions, sar_reports, verdict, mark_log, mark_errors,
                                        flips, report_log >>
                   ELSE /\ verdict' = [verdict EXCEPT ![w] = v]
                        /\ IF v.error # ""
                           THEN /\ stats' = Bump(stats, "errors")
                                /\ UNCHANGED << transactions, sar_reports, mark_log, mark_errors,
                                                flips, report_log >>
                           ELSE \E historyUp \in Availability, llmUp \in Availability,
                                   saveUp \in Availability, markUp \in Availability :
                                  LET a == agent_node(sar_reports, transactions, id,
                                                      v.confidence, historyUp, llmUp, saveUp)
                                      s1 == IF v.is_laundering
                                            THEN IF a.result.sar_id # 0
                                                 THEN Bump(Bump(stats, "suspicious"),
                                                           "sars_generated")
                                                 ELSE Bump(stats, "suspicious")
                                            ELSE Bump(stats, "clean")
                                  IN  /\ v.is_laundering \/ (historyUp /\ llmUp /\ saveUp)
                                      /\ IF v.is_laundering /\ a.raised
                                         THEN \* the report agent raised: except branch
                                              /\ stats' = Bump(Bump(stats, "suspicious"),
                                                               "errors")
                                              /\ markUp
                                              /\ UNCHANGED << transactions, sar_reports,
                                                              mark_log, mark_errors, flips,
                                                              report_log >>
                                         ELSE /\ sar_reports' = IF v.is_laundering
                                                                THEN a.reports
                                                                ELSE sar_reports
                                              /\ report_log' =
                                                    IF v.is_laundering /\ a.result.sar_id # 0
                                                    THEN Append(report_log, w)
                                                    ELSE report_log
                                              /\ MarkCall(w, id, markUp)
                                              /\ stats' = IF markUp
                                                          THEN Bump(s1, "processed")
                                                          ELSE Bump(s1, "errors")   \* except branch
    /\ pc' = [pc EXCEPT ![w] = "sim_loop"]
    /\ UNCHANGED << state, iter, fetched, pre, cycle_events, env >>

SimulationNext(w) ==
    \/ run_simulation(w)
    \/ sim_fetch(w)
    \/ process_single_transaction(w)

Next == \E w \in Workers : WorkflowNext(w) \/ SimulationNext(w)

Spec == Init /\ [][Next]_vars

\* The same driver over a store and a narrative service that never fail.
InitNoFaults ==
    /\ InitStore
    /\ driver \in {"workflow", "simulation"}
    /\ active = {"A"}
    /\ faults = FALSE

SpecNoFaults == InitNoFaults /\ [][Next]_vars

\* Two workflow cycles at a time over the same store (two run_continuous
\* drivers), no call failing.
InitConc ==
    /\ InitStore
    /\ driver = "workflow"
    /\ active = Workers
    /\ faults = FALSE

NextConc == \E w \in Workers : WorkflowNext(w)

SpecConc == InitConc /\ [][NextConc]_vars

\* run_continuous(MaxCycles) alone over a store and services whose calls may
\* fail.  The for loop runs one cycle after the other and each node returns:
\* a step that can be taken is taken.
InitLive ==
    /\ InitStore
    /\ driver = "workflow"
    /\ active = {"A"}
    /\ faults = TRUE

SpecLive == InitLive /\ [][NextConc]_vars /\ WF_vars(NextConc)

\* ------------------------------------- the threads of simulation/run_simulation.py
\* A transaction of TransactionGenerator as the pipeline reads it: the
\* generator writes sender_account, amount, transaction_type, ..., so every
\* column the encoder and the report tools look up is absent.
GeneratedTx == MissingFieldsTx

\* mongo_handler.insert_transaction(transaction) of the store handler the
\* generator is written for: the document is added to the collection,
\* unprocessed.
insert_transaction(txs, doc) == Append(txs, [doc |-> doc, processed |-> FALSE])

\* The transactions the next fetches have to go through.
Backlog == Len(Unprocessed(transactions, 1))

\* One insert of generate_batch_transactions in the generator thread.  The
\* thread inserts while the MaxCycles cycles of the monitoring thread can
\* still go through everything that is unprocessed.
generate_batch_transactions ==
    /\ Len(transactions) < NumTx
    /\ \A w \in active : Backlog + 1 <= MaxCycles - iter[w]
    /\ transactions' = insert_transaction(transactions, GeneratedTx)
    /\ UNCHANGED << sar_reports, cycles, env >>

\* The monitoring thread: aml_workflow.run() in a loop.
monitor_continuously == WorkflowNext("A")

NextGen == generate_batch_transactions \/ monitor_continuously

\* An empty collection, a generator thread and a monitoring thread, with the
\* store and the services up.  The monitoring thread is scheduled fairly.
InitGen ==
    /\ transactions = << >>
    /\ oracle \in [TxIds -> {Answer(0, FALSE, 90, FALSE), Answer(1, FALSE, 85, FALSE)}]
    /\ model \in ModelKinds
    /\ InitCycles
    /\ driver = "workflow"
    /\ active = {"A"}
    /\ faults = FALSE

SpecGen == InitGen /\ [][NextGen]_vars /\ WF_vars(monitor_continuously)

\* ------------------------------------------------ direct calls of the codec
\* One direct call of a function: what was called, on what, and what came back.
Call(op, arg, out) == [op |-> op, arg |-> arg, out |-> out]

\* The records the encoder is called on.
Records == {GoodTx, LaterTx, NullFormatTx, BadAmountTx, MissingFieldsTx, ScenarioTx}

\* The payment-format strings encode_payment_format is called on.
FormatStrings ==
    {"WIRE", "wire", "Wire", "ACH", "ach", "CHECK", "check", "CASH", "cash",
     "CRYPTO", "crypto", "Crypto", "CARD", "card", "TRANSFER", "transfer",
     "", "bitcoin", "BITCOIN"}

\* The feature vectors the adapter is called on: <<1, 2, ..., n>> for every
\* length n up to MaxLen.
Vectors == {[i \in 1..n |-> i] : n \in 0..MaxLen}

\* What the classifier answers on a probed vector: label 1, an exception, or
\* a label that is neither 0 nor 1.
ScoreAnswers ==
    {Answer(1, FALSE, 85, FALSE), Answer(1, TRUE, 0, FALSE), Answer(2, FALSE, 60, FALSE)}

\* A call of prepare_transaction_for_ml(transaction).  tx_after is the dict
\* after the call (the encoder only reads it with .get).
call_prepare_transaction_for_ml ==
    /\ Len(probe) < MaxCalls
    /\ \E tx \in Records :
          probe' = Append(probe, Call("encode", [tx |-> tx],
                                      [result |-> prepare_transaction_for_ml(tx),
                                       tx_after |-> tx]))
    /\ UNCHANGED << transactions, sar_reports, cycles, setting >>

\* A call of predict_money_laundering(features).
call_predict_money_laundering ==
    /\ Len(probe) < MaxCalls
    /\ \E features \in Vectors, answer \in ScoreAnswers :
          probe' = Append(probe, Call("score", [features |-> features, answer |-> answer],
                                      predict_money_laundering(model, features, answer)))
    /\ UNCHANGED << transactions, sar_reports, cycles, setting >>

\* A call of encode_payment_format(payment_format) on a string, before any
\* other call.
call_encode_payment_format ==
    /\ probe = << >>
    /\ \E payment_format \in FormatStrings :
          probe' = << Call("format", [payment_format |-> payment_format],
                           encode_payment_format(Str(payment_format))) >>
    /\ UNCHANGED << transactions, sar_reports, cycles, setting >>

NextCodec ==
    \/ call_prepare_transaction_for_ml
    \/ call_predict_money_laundering
    \/ call_encode_payment_format

\* The encoder and the adapter called directly, with any loaded or missing model.
InitCodec ==
    /\ transactions = [t \in TxIds |-> [doc |-> GoodTx, processed |-> FALSE]]
    /\ oracle = [t \in TxIds |-> Answer(0, FALSE, 90, FALSE)]
    /\ model \in ModelKinds
    /\ InitCycles
    /\ driver = "none"
    /\ active = {}
    /\ faults = FALSE

SpecCodec == InitCodec /\ [][NextCodec]_vars

\* ----------------------------------------- direct calls of the report agent
\* The records a store of the report agent holds: two transactions of ACC1 at
\* different times, one of ACC2, one of ACC1 with a textual amount.
AgentDocs == {GoodTx, LaterTx, NullFormatTx, BadAmountTx}

\* The verdict confidences a report is asked for with, in hundredths: at
\* 0.80, just above it, and well above it.
Confidences == {80, 81, 85}

\* The accounts looked up: the two in the store and one with no transaction.
Accounts == {"ACC1", "ACC2", "ACC9"}

\* A call of MongoHandler.get_account_transactions(account_id, limit): the
\* find raises when the store is down.
call_get_account_transactions ==
    /\ probe = << >>
    /\ \E account_id \in Accounts, limit \in 1..MaxLimit, storeUp \in Availability :
          probe' = << Call("history",
                           [account_id |-> account_id, limit |-> limit, storeUp |-> storeUp],
                           IF storeUp
                           THEN [raised |-> FALSE,
                                 history |-> get_account_transactions(transactions,
                                                                      account_id, limit)]
                           ELSE [raised |-> TRUE, history |-> << >>]) >>
    /\ UNCHANGED << transactions, sar_reports, cycles, setting >>

\* A call of get_account_history_tool(account_id, mongo_handler).
call_get_account_history_tool ==
    /\ probe = << >>
    /\ \E account_id \in Accounts, storeUp \in Availability :
          probe' = << Call("history_tool",
                           [account_id |-> account_id, limit |-> 10, storeUp |-> storeUp],
                           [raised |-> FALSE,
                            history |-> get_account_history_tool(transactions, account_id,
                                                                 storeUp)]) >>
    /\ UNCHANGED << transactions, sar_reports, cycles, setting >>

\* A call of SARAgent.process_suspicious_transaction(flagged_transaction,
\* ml_confidence, mongo_handler): the graph runs _agent_node and the result
\* (or the exception of the node) goes to the caller.
process_suspicious_transaction ==
    /\ probe = << >>
    /\ \E id \in TxIds, ml_confidence \in Confidences, historyUp \in Availability,
          llmUp \in Availability, saveUp \in Availability :
          LET a == agent_node(sar_reports, transactions, id, ml_confidence,
                              historyUp, llmUp, saveUp)
          IN  /\ sar_reports' = a.reports
              /\ probe' = << Call("report",
                                  [id |-> id, ml_confidence |-> ml_confidence,
                                   historyUp |-> historyUp, llmUp |-> llmUp,
                                   saveUp |-> saveUp, txs |-> transactions,
                                   reports |-> sar_reports],
                                  a) >>
    /\ UNCHANGED << transactions, cycles, setting >>

\* mongo_handler.transactions_collection.find_one() of the store handler
\* run_simulation.py is written for: it raises when the store is down.
find_one(storeUp) == [raised |-> ~storeUp]

\* OllamaClient.is_available: client.list() in try/except.
is_available(llmUp) == llmUp

\* test_model on a loaded model: predict_money_laundering never raises, so
\* the test succeeds.
test_model(loaded) == loaded

\* check_system_health giving up at the first component that is down.
check_system_health_first_failure(storeUp, llmUp, loaded) ==
    [mongodb |-> storeUp, ollama |-> storeUp /\ llmUp,
     ml_model |-> storeUp /\ llmUp /\ loaded]

\* AMLSimulation.check_system_health of simulation/run_simulation.py: three
\* checks, each in its own try/except, into one dict.
check_system_health(storeUp, llmUp, loaded) ==
    [mongodb |-> ~find_one(storeUp).raised,
     ollama |-> is_available(llmUp),
     ml_model |-> IF loaded THEN test_model(loaded) ELSE FALSE]

\* AMLSimulation.health_check of main.py: the lines it prints, TRUE for a
\* check mark.  get_statistics, pickle.load of the model file, the CSV path
\* and client.list() are tried one after the other, each in its own try.
health_check(storeUp, modelFileLoads, csvFound, llmUp) ==
    [MongoDB |-> storeUp, MLModel |-> modelFileLoads, CSVFile |-> csvFound,
     Ollama |-> llmUp]

\* A call of check_system_health().
call_check_system_health ==
    /\ probe = << >>
    /\ \E storeUp \in Availability, llmUp \in Availability, loaded \in BOOLEAN :
          probe' = << Call("health",
                           [storeUp |-> storeUp, llmUp |-> llmUp, loaded |-> loaded],
                           check_system_health(storeUp, llmUp, loaded)) >>
    /\ UNCHANGED << transactions, sar_reports, cycles, setting >>

\* A call of health_check() of main.py.
call_health_check ==
    /\ probe = << >>
    /\ \E storeUp \in Availability, llmUp \in Availability, loaded \in BOOLEAN,
          csvFound \in BOOLEAN :
          probe' = << Call("health_main",
                           [storeUp |-> storeUp, llmUp |-> llmUp, loaded |-> loaded],
                           health_check(storeUp, loaded, csvFound, llmUp)) >>
    /\ UNCHANGED << transactions, sar_reports, cycles, setting >>

NextAgent ==
    \/ call_get_account_transactions
    \/ call_get_account_history_tool
    \/ process_suspicious_transaction
    \/ call_check_system_health
    \/ call_health_check

\* The report agent and the history lookup called directly on a loaded store,
\* the store and the narrative service failing or not.
InitAgent ==
    /\ transactions \in [TxIds -> {[doc |-> d, processed |-> FALSE] : d \in AgentDocs}]
    /\ oracle = [t \in TxIds |-> Answer(1, FALSE, 85, FALSE)]
    /\ model = "proba"
    /\ InitCycles
    /\ driver = "none"
    /\ active = {}
    /\ faults = TRUE

SpecAgent == InitAgent /\ [][NextAgent]_vars

\* The same direct calls with the store and the narrative service up.
InitAgentNoFaults ==
    /\ transactions \in [TxIds -> {[doc |-> d, processed |-> FALSE] : d \in AgentDocs}]
    /\ oracle = [t \in TxIds |-> Answer(1, FALSE, 85, FALSE)]
    /\ model = "proba"
    /\ InitCycles
    /\ driver = "none"
    /\ active = {}
    /\ faults = FALSE

SpecAgentNoFaults == InitAgentNoFaults /\ [][NextAgent]_vars

\* ------------------------------------------------------------------- claims
\* A cycle of worker w has ended: the workflow reached END, or
\* process_single_transaction returned to the loop of run_simulation.
CycleEnded(w) ==
    \/ driver = "workflow" /\ pc[w] = "END"
    \/ driver = "simulation" /\ pc[w] = "sim_loop" /\ fetched[w] # 0

WorkflowCycleEnded(w) == driver = "workflow" /\ pc[w] = "END"

ScoredInCycle(w, t) == score_log[w][t] - pre[w].scored[w][t]
MarkedInCycle(w, t) == mark_log[w][t] - pre[w].marked[w][t]
TotalMarks(t) == mark_log["A"][t] + mark_log["B"][t]
TotalScored(t) == score_log["A"][t] + score_log["B"][t]
ReportsFor(t) ==
    Cardinality({i \in DOMAIN sar_reports : sar_reports[i].flagged_transaction_id = t})

\* The model raises while scoring transaction t.
ModelRaises(t) ==
    model # "none" /\ (oracle[t].predictRaises \/ (model = "proba" /\ oracle[t].probaRaises))

\* Transaction t, once scored, is judged suspicious.
JudgedSuspicious(t) == model # "none" /\ ~ModelRaises(t) /\ oracle[t].label = 1

CleanVerdict(v) == v.prediction_value >= 0 /\ ~v.is_laundering /\ v.error = ""

\* C1: every workflow cycle that fetched a transaction T ends with T's
\* processed flag taken from false to true exactly once, and with
\* mark_transaction_processed called exactly once, on T and on no other
\* transaction.
C1_MarkedExactlyOnce ==
    \A w \in Workers :
        (WorkflowCycleEnded(w) /\ fetched[w] # 0) =>
            LET t == fetched[w]
            IN  /\ ~pre[w].transactions[t].processed
                /\ transactions[t].processed
                /\ flips[t] = pre[w].flips[t] + 1
                /\ MarkedInCycle(w, t) = 1
                /\ \A u \in TxIds \ {t} : MarkedInCycle(w, u) = 0

\* C2: in either driver, a cycle whose verdict has error set ends with the
\* fetched transaction marked processed, so that the next fetch of unprocessed
\* transactions does not return it.
C2_ErrorVerdictStillMarked ==
    \A w \in Workers :
        (CycleEnded(w) /\ fetched[w] # 0 /\ verdict[w].error # "") =>
            /\ transactions[fetched[w]].processed
            /\ get_unprocessed_transactions(transactions, 1) # << fetched[w] >>

\* C3: with two cycles running at a time, no transaction is scored by both
\* workers and no transaction has reports inserted by both workers.
C3_AtMostOneCycle ==
    \A t \in TxIds :
        /\ Cardinality({w \in Workers : score_log[w][t] > 0}) <= 1
        /\ Cardinality({report_log[i] : i \in
              {j \in DOMAIN sar_reports : sar_reports[j].flagged_transaction_id = t}}) <= 1

\* C4 as stated: a cycle with a clean verdict (not suspicious, no error)
\* leaves the report collection as it was, never enters the report step, and
\* ends with the transaction marked processed.
C4_CleanNoReportMarked ==
    \A w \in Workers :
        (CycleEnded(w) /\ fetched[w] # 0 /\ CleanVerdict(verdict[w])) =>
            /\ sar_reports = pre[w].reports
            /\ driver = "workflow" => (state[w].sar_content = "" /\ ~state[w].sar_generated)
            /\ transactions[fetched[w]].processed

\* C4 as amended: a cycle with a clean verdict leaves the report collection
\* as it was, never enters the report step, and calls
\* mark_transaction_processed once on the transaction; the transaction is
\* processed at the end of the cycle exactly when that call did not raise.
C4_CleanNoReportMarkCalled ==
    \A w \in Workers :
        (CycleEnded(w) /\ fetched[w] # 0 /\ CleanVerdict(verdict[w])) =>
            LET t == fetched[w]
            IN  /\ sar_reports = pre[w].reports
                /\ driver = "workflow" =>
                      (state[w].sar_content = "" /\ ~state[w].sar_generated)
                /\ MarkedInCycle(w, t) = 1
                /\ transactions[t].processed <=> (mark_errors[t] = pre[w].mark_errors[t])

\* C4's case: a cycle with a clean verdict has ended and the transaction is processed.
C4_Witness ==
    \E w \in Workers :
        /\ CycleEnded(w) /\ fetched[w] # 0 /\ CleanVerdict(verdict[w])
        /\ transactions[fetched[w]].processed

\* Every worker is between two cycles.
Quiescent ==
    \A w \in active : pc[w] \in {"idle", "END", "sim_loop", "sim_done"}

\* C5: a cycle with a suspicious verdict inserts exactly one report, whose
\* flagged_transaction_id is the fetched transaction; and between cycles the
\* number of reports that reference a transaction is 1 if it was judged
\* suspicious and 0 otherwise.
C5_ExactlyOneReport ==
    /\ \A w \in Workers :
          (CycleEnded(w) /\ fetched[w] # 0 /\ verdict[w].is_laundering) =>
              /\ Len(sar_reports) = Len(pre[w].reports) + 1
              /\ SubSeq(sar_reports, 1, Len(pre[w].reports)) = pre[w].reports
              /\ sar_reports[Len(sar_reports)].flagged_transaction_id = fetched[w]
    /\ Quiescent =>
          \A t \in TxIds :
              ReportsFor(t) = IF TotalScored(t) > 0 /\ JudgedSuspicious(t) THEN 1 ELSE 0

\* C6: in one run of sequential cycles by one driver, no transaction is
\* scored twice.
C6_NeverScoredTwice ==
    \A w \in Workers : \A t \in TxIds : score_log[w][t] <= 1

\* C7: mark_transaction_processed is idempotent: a call on a transaction that
\* an earlier call has already marked raises no error and leaves the store,
\* with processed = true, exactly as the first call left it.
C7_MarkIdempotent ==
    [][\A t \in TxIds :
          (TotalMarks(t)' = TotalMarks(t) + 1 /\ TotalMarks(t) >= 1
              /\ transactions[t].processed) =>
              /\ mark_errors' = mark_errors
              /\ transactions' = transactions
              /\ transactions'[t].processed]_vars

\* C7's case: the same transaction was marked by two calls.
C7_Witness ==
    \E t \in TxIds :
        /\ mark_log["A"][t] >= 1 /\ mark_log["B"][t] >= 1
        /\ transactions[t].processed

\* C8: a workflow cycle that starts with no unprocessed transaction in the
\* store ends with has_transaction = false and no error, without a call of
\* the classifier, without a call of mark_transaction_processed and with the
\* transactions and the reports as they were.
C8_NothingToProcess ==
    \A w \in Workers :
        (WorkflowCycleEnded(w) /\ \A t \in TxIds : pre[w].transactions[t].processed) =>
            /\ ~state[w].has_transaction
            /\ state[w].error = ""
            /\ state[w].ml_prediction = NoPrediction
            /\ score_log = pre[w].scored
            /\ mark_log = pre[w].marked
            /\ transactions = pre[w].transactions
            /\ sar_reports = pre[w].reports

\* C8's case: a cycle ran to its end over a store whose transactions were
\* all processed.
C8_Witness ==
    \E w \in Workers :
        /\ WorkflowCycleEnded(w)
        /\ \A t \in TxIds : pre[w].transactions[t].processed
        /\ ~state[w].has_transaction

\* C9: a workflow cycle that starts with an unprocessed transaction in the
\* store scores exactly one transaction, the first the fetch returns, and
\* changes the processed flag of no other transaction.
C9_ExactlyOneTransaction ==
    \A w \in Workers :
        (WorkflowCycleEnded(w) /\ Unprocessed(pre[w].transactions, 1) # << >>) =>
            LET t == get_unprocessed_transactions(pre[w].transactions, 1)[1]
            IN  /\ ScoredInCycle(w, t) = 1
                /\ \A u \in TxIds \ {t} :
                      /\ ScoredInCycle(w, u) = 0
                      /\ transactions[u].processed = pre[w].transactions[u].processed

\* C10: predict_money_laundering never raises: a cycle that called it has a
\* verdict, and no exception in its result unless the later report step
\* raised; when the model raised in predict or predict_proba the verdict has
\* error set, is_laundering = false and confidence = 0.0.
C10_ScoringNeverRaises ==
    \A w \in Workers :
        (fetched[w] # 0 /\ ScoredInCycle(w, fetched[w]) = 1
            /\ pc[w] \in {"generate_sar", "END", "sim_loop"}) =>
            /\ verdict[w] # NoPrediction
            /\ pc[w] = "generate_sar" => state[w].error = ""
            /\ ~cycle_events[w].raised => state[w].error = ""
            /\ ModelRaises(fetched[w]) =>
                  /\ verdict[w].error # ""
                  /\ ~verdict[w].is_laundering
                  /\ verdict[w].confidence = 0

\* C10's case: the model raised while a cycle scored its transaction.
C10_Witness ==
    \E w \in Workers :
        /\ fetched[w] # 0 /\ ScoredInCycle(w, fetched[w]) = 1
        /\ ModelRaises(fetched[w])
        /\ verdict[w].error = "exception"

\* ------------------------------------------- claims about the direct calls
\* The direct calls of one function made so far.
ProbesOf(op) == {i \in DOMAIN probe : probe[i].op = op}

\* C11: for every input vector of length 0 to MaxLen, a loaded model is
\* invoked on exactly 7 entries: the entries of the input in their order, cut
\* after the seventh, and 0.0 in every place the input does not reach.
C11_ModelGetsSevenFeatures ==
    \A i \in ProbesOf("score") :
        model # "none" =>
            LET given == probe[i].arg.features
                passed == probe[i].out.passed
            IN  /\ probe[i].out.invoked
                /\ Len(passed) = 7
                /\ \A k \in 1..7 : passed[k] = IF k <= Len(given) THEN given[k] ELSE 0

\* C11's case: a loaded model was invoked on an input shorter than 7 and on
\* an input longer than 7.
C11_Witness ==
    /\ model # "none"
    /\ \E i, j \in ProbesOf("score") :
          /\ Len(probe[i].arg.features) < 7 /\ probe[i].out.invoked
          /\ Len(probe[j].arg.features) > 7 /\ probe[j].out.invoked

\* C12: for every valid transaction, prepare_transaction_for_ml returns a
\* vector of exactly 7 numbers.
C12_SevenFeatures ==
    \A i \in ProbesOf("encode") :
        Valid(probe[i].arg.tx) =>
            /\ ~probe[i].out.result.raised
            /\ Len(probe[i].out.result.features) = 7

\* C13: prepare_transaction_for_ml is total: on every record, with missing
\* fields, null fields or a non-numeric amount, it raises nothing and returns
\* a vector whose affected positions hold their defaults (amount 0, format
\* code 0).
C13_EncoderTotal ==
    \A i \in ProbesOf("encode") :
        LET tx == probe[i].arg.tx
            r == probe[i].out.result
        IN  /\ ~r.raised
            /\ Len(r.features) >= 7
            /\ tx.AmountReceived.k # "num" => r.features[1] = 0
            /\ tx.PaymentFormat.k # "str" => r.features[3] = 0

OfAccount(txs, account_id) == {t \in TxIds : txs[t].doc.Account = account_id}

\* The ids a sequence holds.
Range(seq) == {seq[i] : i \in DOMAIN seq}

\* C15: the history lookup of an account returns transactions of that account
\* only, none twice, at most limit of them (10 in the report path), the most
\* recent ones, most recent first; the lookup of the report path raises
\* nothing and returns the empty sequence when the account has no transaction
\* or the store lookup fails.
C15_HistoryLookup ==
    /\ \A i \in ProbesOf("history") \cup ProbesOf("history_tool") :
          LET c == probe[i]
              h == c.out.history
              mine == OfAccount(transactions, c.arg.account_id)
              when(t) == Instant(transactions[t].doc.Timestamp)
          IN  c.arg.storeUp =>
                /\ ~c.out.raised
                /\ Range(h) \subseteq mine
                /\ Cardinality(Range(h)) = Len(h)
                /\ Len(h) = IF Cardinality(mine) < c.arg.limit
                            THEN Cardinality(mine) ELSE c.arg.limit
                /\ \A a, b \in DOMAIN h : a < b => when(h[a]) >= when(h[b])
                /\ \A t \in mine \ Range(h) : \A a \in DOMAIN h : when(h[a]) >= when(t)
                /\ mine = {} => h = << >>
    /\ \A i \in ProbesOf("history_tool") :
          /\ ~probe[i].out.raised
          /\ ~probe[i].arg.storeUp => probe[i].out.history = << >>

\* C15's case: a lookup with a limit smaller than the number of the account's
\* transactions, which were made at different times.
C15_Witness ==
    \E i \in ProbesOf("history") :
        LET c == probe[i]
            mine == OfAccount(transactions, c.arg.account_id)
        IN  /\ c.arg.storeUp
            /\ Cardinality(mine) > c.arg.limit
            /\ Len(c.out.history) = c.arg.limit
            /\ \E t, u \in mine : Instant(transactions[t].doc.Timestamp)
                                     < Instant(transactions[u].doc.Timestamp)

\* C16: the history assembled for a suspicious transaction T never contains T
\* itself, and assembling it changes no transaction and no stored report.
C16_HistoryExcludesT ==
    \A i \in ProbesOf("report") :
        LET c == probe[i]
        IN  /\ c.arg.id \notin Range(c.out.account_history)
            /\ transactions = c.arg.txs
            /\ SubSeq(sar_reports, 1, Len(c.arg.reports)) = c.arg.reports

\* C17: when the chat call of the narrative service raises while a report is
\* produced (and the store takes the insert), the report is persisted with
\* the error text as its narrative and nothing is raised to the caller of
\* process_suspicious_transaction.
C17_NarrativeFailureKeepsReport ==
    \A i \in ProbesOf("report") :
        LET c == probe[i]
        IN  (c.out.llm_called /\ ~c.arg.llmUp /\ c.arg.saveUp) =>
                /\ ~c.out.raised
                /\ Len(sar_reports) = Len(c.arg.reports) + 1
                /\ sar_reports[Len(sar_reports)].flagged_transaction_id = c.arg.id
                /\ sar_reports[Len(sar_reports)].sar_content = "Error generating SAR report"
                /\ c.out.result.sar_id = Len(sar_reports)
                /\ c.out.result.sar_content = "Error generating SAR report"

\* C17's case: the chat call was made and failed, and a report was stored.
C17_Witness ==
    \E i \in ProbesOf("report") :
        /\ probe[i].out.llm_called /\ ~probe[i].arg.llmUp /\ probe[i].arg.saveUp
        /\ Len(sar_reports) = 1

\* C18: for a suspicious transaction T (with a numeric amount) whose account
\* has no other transaction, the history lookup returns the empty sequence, the history section is the
\* fixed 'No transaction history available.' text, no error is raised, and
\* the report is persisted when the store takes the insert.
C18_ZeroHistoryReport ==
    \A i \in ProbesOf("report") :
        LET c == probe[i]
            T == c.arg.id
        IN  (OfAccount(c.arg.txs, c.arg.txs[T].doc.Account) = {T}
                /\ FormatsAmount(c.arg.txs[T].doc)) =>
                /\ c.out.account_history = << >>
                /\ c.out.history_text = "No transaction history available."
                /\ ~c.out.raised
                /\ c.arg.saveUp =>
                      /\ Len(sar_reports) = Len(c.arg.reports) + 1
                      /\ sar_reports[Len(sar_reports)].flagged_transaction_id = T

\* ------------------------------------------------- claims about the cycles
\* C19: a workflow cycle whose fetch found the store unavailable ends with an
\* error in its result (so that the caller can tell it from a cycle that found
\* no transaction), and leaves every transaction as it was.
C19_StoreFailureSurfaced ==
    \A w \in Workers :
        (WorkflowCycleEnded(w) /\ cycle_events[w].fetch_failed) =>
            /\ state[w].error # ""
            /\ transactions = pre[w].transactions

\* C20: a workflow cycle never raises across run: a cycle in which a node
\* raised ends with the exception in the error field of its result, and
\* run_continuous(MaxCycles) runs exactly MaxCycles cycles and then stops,
\* whichever of them ended in error.
C20_CyclesNeverRaise ==
    /\ [](\A w \in Workers :
            /\ pc[w] # "crashed"
            /\ iter[w] <= MaxCycles
            /\ (pc[w] = "END" /\ cycle_events[w].raised) => state[w].error # "")
    /\ <>[](\A w \in Workers :
              w \in active => (iter[w] = MaxCycles /\ pc[w] = "END"))

\* C20's case: the last of the MaxCycles cycles has ended, in error, after a
\* node raised.
C20_Witness ==
    \E w \in Workers :
        /\ w \in active
        /\ iter[w] = MaxCycles /\ pc[w] = "END"
        /\ cycle_events[w].raised /\ state[w].error # ""

\* ------------------------------------------------ claims about the reports
\* C21: every persisted report carries a risk_level derived from the verdict
\* confidence: HIGH when the confidence is above 0.80 and MEDIUM otherwise
\* (so MEDIUM at exactly 0.80), and never LOW.
C21_RiskLevelFromConfidence ==
    \A i \in DOMAIN sar_reports :
        /\ "risk_level" \in DOMAIN sar_reports[i]
        /\ sar_reports[i].risk_level =
              IF sar_reports[i].ml_confidence > 80 THEN "HIGH" ELSE "MEDIUM"

Encoded(i) == NormalizeFeatures(probe[i].out.result.features)

\* C23: the transaction {Bank_A, ACC00000001, Bank_B, ACC00000002, 9500.00,
\* USD, WIRE} encodes to a vector whose amount entry (5th) is 9500.0, whose
\* currency entry (6th) is 1 and whose payment-format entry (7th) is 1.
C23_ScenarioEncoding ==
    \A i \in ProbesOf("encode") :
        probe[i].arg.tx = ScenarioTx =>
            /\ ~probe[i].out.result.raised
            /\ Encoded(i)[5] = 9500
            /\ Encoded(i)[6] = 1
            /\ Encoded(i)[7] = 1

\* C28: position i of the encoded vector holds the field that position i of
\* the classifier's expected input holds, for every i, after the adapter's
\* length normalisation.
C28_EncoderOrderMatchesAdapter ==
    \A i \in ProbesOf("encode") :
        ~probe[i].out.result.raised =>
            /\ Len(probe[i].out.result.features) = Len(EncoderFields)
            /\ \A k \in 1..7 : NormalizeFeatures(EncoderFields)[k] = ExpectedFields[k]

\* The code the payment-format table assigns to each of the strings called on.
ExpectedFormatCode(s) ==
    CASE s \in {"WIRE", "wire", "Wire"} -> 1
      [] s \in {"ACH", "ach"} -> 2
      [] s \in {"CHECK", "check"} -> 3
      [] s \in {"CASH", "cash"} -> 4
      [] s \in {"CRYPTO", "crypto", "Crypto"} -> 5
      [] s \in {"CARD", "card"} -> 6
      [] s \in {"TRANSFER", "transfer"} -> 7
      [] OTHER -> 0

\* C29: encode_payment_format maps WIRE, ACH, CHECK, CASH, CRYPTO, CARD and
\* TRANSFER to 1..7 whatever their case, and an unknown or empty format to 0;
\* and the encoder puts that code into the vector of a record whose format is
\* a string.
C29_PaymentFormatTable ==
    /\ \A i \in ProbesOf("format") :
          /\ ~probe[i].out.raised
          /\ probe[i].out.n = ExpectedFormatCode(probe[i].arg.payment_format)
    /\ \A i \in ProbesOf("encode") :
          LET tx == probe[i].arg.tx
              r == probe[i].out.result
          IN  (~r.raised /\ tx.PaymentFormat.k \in {"str", "missing"}) =>
                  r.features[3] = ExpectedFormatCode(Get(tx.PaymentFormat, Str("")).s)

\* C29's case: a known format written in lower case was encoded to its code.
C29_Witness ==
    \E i \in ProbesOf("format") :
        probe[i].arg.payment_format = "crypto" /\ probe[i].out.n = 5

\* C30: the received-currency entry (6th) of the encoded vector is a code in
\* 0..8 that depends on the received currency alone, and is 0 for an unknown
\* or empty currency.
C30_CurrencyTable ==
    \A i \in ProbesOf("encode") :
        ~probe[i].out.result.raised =>
            /\ Encoded(i)[6] \in 0..8
            /\ Get(probe[i].arg.tx.ReceivingCurrency, Str("")) = Str("") =>
                  Encoded(i)[6] = 0
            /\ \A j \in ProbesOf("encode") :
                  (~probe[j].out.result.raised
                      /\ probe[j].arg.tx.ReceivingCurrency = probe[i].arg.tx.ReceivingCurrency)
                      => Encoded(j)[6] = Encoded(i)[6]

\* ------------------------------------------------ claims about the verdict
\* The answers of a model that raises nothing.
Answering(kind) ==
    {a \in ScoreAnswers : ~a.predictRaises /\ (kind = "proba" => ~a.probaRaises)}

\* C24: in every verdict without error, is_laundering is true exactly when
\* the label the model predicted is 1 and prediction_value is that label, for
\* labels 0, 1 and 2 alike; and requires_investigation of the cycle state is
\* is_laundering of the verdict.
C24_VerdictFollowsLabel ==
    /\ \A kind \in {"proba", "noproba"}, features \in Vectors :
          \A a \in Answering(kind) :
              LET v == predict_money_laundering(kind, features, a).verdict
              IN  /\ v.error = ""
                  /\ v.is_laundering <=> (a.label = 1)
                  /\ v.prediction_value = a.label
    /\ \A w \in Workers :
          (fetched[w] # 0 /\ verdict[w] # NoPrediction /\ verdict[w].error = "") =>
              /\ verdict[w].is_laundering <=> (oracle[fetched[w]].label = 1)
              /\ verdict[w].prediction_value = oracle[fetched[w]].label
    /\ \A w \in Workers :
          (driver = "workflow" /\ pc[w] \in {"generate_sar", "END"}
              /\ fetched[w] # 0 /\ ScoredInCycle(w, fetched[w]) = 1
              /\ ~cycle_events[w].raised) =>
              /\ state[w].ml_prediction = verdict[w]
              /\ state[w].requires_investigation = verdict[w].is_laundering

\* C24's case: the model labelled the fetched transaction 1 and the cycle is
\* on its way to the report with requires_investigation set.
C24_Witness ==
    \E w \in Workers :
        /\ driver = "workflow" /\ pc[w] = "generate_sar"
        /\ oracle[fetched[w]].label = 1
        /\ verdict[w].is_laundering /\ verdict[w].prediction_value = 1
        /\ state[w].requires_investigation

\* C25: the confidence of a verdict is the maximum class probability when the
\* model has predict_proba, and 0.8 for label 1, 0.2 for any other label when
\* it has not; the verdict of a model without predict_proba carries no error.
C25_ConfidenceOrFallback ==
    \A i \in ProbesOf("score") :
        LET a == probe[i].arg.answer
            v == probe[i].out.verdict
        IN  (model # "none" /\ a \in Answering(model)) =>
                /\ ~probe[i].out.raised
                /\ v.error = ""
                /\ v.confidence = IF model = "proba" THEN a.proba
                                  ELSE IF a.label = 1 THEN 80 ELSE 20

\* C25's case: a model without predict_proba labelled one vector 1 and another
\* one 2, and both verdicts carry the fallback confidence and no error.
C25_Witness ==
    /\ model = "noproba"
    /\ \E i, j \in ProbesOf("score") :
          /\ probe[i].arg.answer.label = 1 /\ probe[i].out.verdict.confidence = 80
          /\ probe[j].arg.answer.label = 2 /\ probe[j].out.verdict.confidence = 20
          /\ probe[i].out.verdict.error = "" /\ probe[j].out.verdict.error = ""

\* Every call of predict_money_laundering without a loaded model returns the
\* "Model not loaded" verdict and invokes no model.
UnloadedNeverInvoked ==
    \A features \in Vectors, a \in ScoreAnswers :
        LET r == predict_money_laundering("none", features, a)
        IN  /\ ~r.raised /\ ~r.invoked
            /\ ~r.verdict.is_laundering
            /\ r.verdict.confidence = 0
            /\ r.verdict.error # ""

\* A workflow cycle of worker w scored its transaction without a loaded model.
UnloadedCycle(w) ==
    /\ WorkflowCycleEnded(w) /\ fetched[w] # 0 /\ model = "none"
    /\ ScoredInCycle(w, fetched[w]) = 1

C27_MarkedWhateverTheReport ==
    /\ \A t \in TxIds : transactions[t].processed => TotalScored(t) >= 1
    /\ \A w \in Workers :
          (CycleEnded(w) /\ fetched[w] # 0 /\ verdict[w].is_laundering) =>
              transactions[fetched[w]].processed

\* ------------------------------------------- claims about account and store
\* The transactions process_suspicious_transaction is called on: the ones a
\* worker has fetched and the classifier judged suspicious.
Flagged == {fetched[w] : w \in {v \in active : fetched[v] # 0 /\ verdict[v].is_laundering}}

C32_ReportsInsertedOnce ==
    [][/\ Len(sar_reports') \in {Len(sar_reports), Len(sar_reports) + 1}
       /\ SubSeq(sar_reports', 1, Len(sar_reports)) = sar_reports
       /\ \A i \in DOMAIN sar_reports' : sar_reports'[i].status = "PENDING_REVIEW"
       /\ Len(report_log') = Len(sar_reports')
       /\ \A t \in Flagged :
             LET a == agent_node(sar_reports, transactions, t, 85, TRUE, TRUE, TRUE)
             IN  ~a.raised =>
                     /\ a.result.sar_id = Len(sar_reports) + 1
                     /\ a.result.sar_id \in DOMAIN a.reports
                     /\ a.reports[a.result.sar_id].flagged_transaction_id = t
       /\ Len(sar_reports') > Len(sar_reports) =>
             /\ driver = "workflow" =>
                   \E w \in active : /\ state'[w].sar_generated
                                     /\ state'[w].sar_id = Len(sar_reports')
             /\ driver = "simulation" =>
                   stats'.sars_generated = stats.sars_generated + 1]_vars

\* C32's case: a second report was inserted and the first one is still there.
C32_Witness ==
    /\ Len(sar_reports) = 2
    /\ \A i \in DOMAIN sar_reports : sar_reports[i].status = "PENDING_REVIEW"
    /\ sar_reports[1].flagged_transaction_id # sar_reports[2].flagged_transaction_id

\* ------------------------------------------------ claims about the drivers
\* The cycle of worker w that fetched a transaction is in a terminal state:
\* an error is recorded, or the transaction went through the mark step and,
\* when it was judged suspicious, through the report step.
Terminal(w) ==
    \/ /\ driver = "workflow" /\ pc[w] = "END"
       /\ \/ state[w].error # ""
          \/ /\ MarkedInCycle(w, fetched[w]) = 1
             /\ verdict[w].is_laundering => state[w].sar_content # ""
    \/ /\ driver = "simulation" /\ pc[w] = "sim_loop"
       /\ MarkedInCycle(w, fetched[w]) = 1 \/ stats.errors > 0

\* C33: in the sequential drivers a cycle that fetched a transaction is in a
\* terminal state (clean and marked, reported and marked, or error recorded)
\* before the same driver starts its next cycle: no fetch of cycle k+1 happens
\* before the mark and report steps of cycle k have finished.
C33_CycleRunsToTerminal ==
    [][\A w \in Workers :
          (iter'[w] # iter[w] /\ fetched[w] # 0) => Terminal(w)]_vars

\* C33's case: the workflow driver is in its second cycle after a first cycle
\* that ended with a report.
C33_Witness ==
    \E w \in Workers :
        /\ driver = "workflow" /\ iter[w] = 2 /\ pc[w] = "detect_laundering"
        /\ Len(sar_reports) = 1

\* The transactions whose flag was taken from false to true.
Drained == {t \in TxIds : flips[t] >= 1}

\* C34: the drain loop of run_simulation terminates, fetching each
\* transaction a bounded number of times: with no store or service failure,
\* every iteration that fetched a transaction leaves it processed, so after k
\* iterations k transactions are drained and the loop has exited when none is
\* left.
C34_DrainLoopProgress ==
    \A w \in Workers :
        (driver = "simulation" /\ pc[w] = "sim_loop") =>
            /\ Cardinality(Drained) >= iter[w]
            /\ fetched[w] # 0 => transactions[fetched[w]].processed

\* C35: the processed flag is monotone, no step deletes or rewrites a
\* transaction, and a transaction leaves the unprocessed set only in a step
\* that calls mark_transaction_processed on it.
C35_ProcessedMonotone ==
    [][/\ DOMAIN transactions' = DOMAIN transactions
       /\ \A t \in DOMAIN transactions :
             /\ transactions'[t].doc = transactions[t].doc
             /\ transactions[t].processed => transactions'[t].processed
             /\ (~transactions[t].processed /\ transactions'[t].processed) =>
                   TotalMarks(t)' = TotalMarks(t) + 1]_vars

\* C35's case: one transaction was marked processed while another one is
\* still unprocessed, and a later cycle is under way.
C35_Witness ==
    \E t, u \in TxIds :
        /\ transactions[t].processed /\ flips[t] = 1
        /\ ~transactions[u].processed
        /\ \E w \in Workers : iter[w] = 2

\* The mark_transaction_processed call of worker w's cycle raised.
MarkFailedInCycle(w) ==
    /\ fetched[w] # 0
    /\ ScoredInCycle(w, fetched[w]) = 1
    /\ mark_errors[fetched[w]] > pre[w].mark_errors[fetched[w]]

\* C36: when mark_transaction_processed raises in the detect step of a
\* workflow cycle, the step still returns the verdict and the cycle branches
\* on it (to the report step when suspicious, to the end with no report when
\* not); the transaction stays unprocessed and is what the next fetch returns.
C36_MarkFailureSwallowed ==
    \A w \in Workers :
        (driver = "workflow" /\ pc[w] \in {"generate_sar", "END"} /\ MarkFailedInCycle(w)) =>
            LET t == fetched[w]
            IN  /\ verdict[w] # NoPrediction
                /\ ~cycle_events[w].raised =>
                      /\ state[w].error = ""
                      /\ state[w].ml_prediction = verdict[w]
                /\ verdict[w].is_laundering =>
                      \/ pc[w] = "generate_sar"
                      \/ state[w].sar_content # ""
                      \/ cycle_events[w].raised
                /\ ~verdict[w].is_laundering =>
                      (pc[w] = "END" /\ sar_reports = pre[w].reports)
                /\ ~transactions[t].processed
                /\ get_unprocessed_transactions(transactions, 1) = << t >>

\* C36's case: the mark call failed in two cycles over the same suspicious
\* transaction and each of the two cycles stored a report on it.
C36_Witness ==
    \E w \in Workers :
        /\ driver = "workflow" /\ pc[w] = "END" /\ MarkFailedInCycle(w)
        /\ ReportsFor(fetched[w]) = 2
        /\ ~transactions[fetched[w]].processed

\* C37: a workflow cycle in which the encoding of the fetched transaction
\* raised ends (with the error in its result) without scoring, without a new
\* report and without a mark call; the transaction stays unprocessed and is
\* what the next fetch returns, so every following cycle fetches it again.
C37_EncodingFailureLeavesUnprocessed ==
    \A w \in Workers :
        (driver = "workflow" /\ fetched[w] # 0 /\ pc[w] # "detect_laundering"
            /\ ScoredInCycle(w, fetched[w]) = 0) =>
            LET t == fetched[w]
            IN  /\ cycle_events[w].raised
                /\ pc[w] = "END"
                /\ state[w].error # ""
                /\ MarkedInCycle(w, t) = 0
                /\ sar_reports = pre[w].reports
                /\ transactions = pre[w].transactions
                /\ ~transactions[t].processed
                /\ get_unprocessed_transactions(transactions, 1) = << t >>

\* C37's case: the third cycle in a row fetched the same transaction and its
\* encoding raised again.
C37_Witness ==
    \E w \in Workers :
        /\ driver = "workflow" /\ pc[w] = "END" /\ iter[w] = MaxCycles
        /\ fetched[w] # 0 /\ cycle_events[w].raised
        /\ TotalScored(fetched[w]) = 0
        /\ ~transactions[fetched[w]].processed
        /\ \A u \in TxIds : flips[u] = 0

\* ---------------------------------------------- claims about the simulation
\* The process_single_transaction calls that have returned: one per fetch
\* that found a transaction.
Calls(w) ==
    IF pc[w] = "sim_loop" THEN iter[w]
    ELSE IF iter[w] > 0 THEN iter[w] - 1 ELSE 0

RECURSIVE SumOver(_, _)
SumOver(f, S) ==
    IF S = {} THEN 0
    ELSE LET t == CHOOSE x \in S : TRUE IN f[t] + SumOver(f, S \ {t})

\* The mark_transaction_processed calls of worker w that completed.
MarksCompleted(w) == SumOver(mark_log[w], TxIds) - SumOver(mark_errors, TxIds)

\* C39: after any sequence of process_single_transaction calls, processed +
\* errors is the number of calls, sars_generated <= suspicious, processed <=
\* clean + suspicious <= processed + errors, and processed is the number of
\* mark_transaction_processed calls that completed.
C39_CounterInvariants ==
    \A w \in active :
        driver = "simulation" =>
            /\ stats.processed + stats.errors = Calls(w)
            /\ stats.sars_generated <= stats.suspicious
            /\ stats.processed <= stats.clean + stats.suspicious
            /\ stats.clean + stats.suspicious <= stats.processed + stats.errors
            /\ stats.processed = MarksCompleted(w)

\* C39's case: two calls have returned, one counted as processed and one as
\* an error after a suspicious verdict.
C39_Witness ==
    \E w \in active :
        /\ driver = "simulation" /\ Calls(w) = 2
        /\ stats.processed = 1 /\ stats.errors = 1 /\ stats.suspicious >= 1

\* C40 as stated: save_sar_report_tool returns the empty identifier when the
\* insert fails; a call of process_single_transaction on a suspicious
\* transaction whose report could not be persisted leaves no report on that
\* transaction in the store, sars_generated as it was, and the transaction
\* processed.
C40_SaveFailureStillMarked ==
    /\ \A t \in Flagged :
          LET a == agent_node(sar_reports, transactions, t, 85, TRUE, TRUE, FALSE)
          IN  ~a.raised => (a.result.sar_id = 0 /\ a.reports = sar_reports)
    /\ driver = "simulation" => stats.sars_generated = Len(sar_reports)
    /\ \A w \in Workers :
          (driver = "simulation" /\ CycleEnded(w) /\ verdict[w].is_laundering
              /\ MarkedInCycle(w, fetched[w]) = 1 /\ sar_reports = pre[w].reports) =>
              /\ ReportsFor(fetched[w]) = 0
              /\ transactions[fetched[w]].processed

\* C40 as amended: save_sar_report_tool returns the empty identifier when the
\* insert fails; a call of process_single_transaction on a suspicious
\* transaction whose report could not be persisted inserts no report, leaves
\* sars_generated as it was and calls mark_transaction_processed once; the
\* transaction is processed exactly when that call did not raise.
C40_SaveFailureMarkCalled ==
    /\ \A t \in Flagged :
          LET a == agent_node(sar_reports, transactions, t, 85, TRUE, TRUE, FALSE)
          IN  ~a.raised => (a.result.sar_id = 0 /\ a.reports = sar_reports)
    /\ driver = "simulation" => stats.sars_generated = Len(sar_reports)
    /\ \A w \in Workers :
          (driver = "simulation" /\ CycleEnded(w) /\ verdict[w].is_laundering
              /\ MarkedInCycle(w, fetched[w]) = 1 /\ sar_reports = pre[w].reports) =>
              LET t == fetched[w]
              IN  transactions[t].processed <=> (mark_errors[t] = pre[w].mark_errors[t])

\* C40's case: a suspicious transaction went through a call in which the
\* insert of its report failed, and it is processed with no report.
C40_Witness ==
    \E w \in Workers :
        /\ driver = "simulation" /\ CycleEnded(w) /\ verdict[w].is_laundering
        /\ MarkedInCycle(w, fetched[w]) = 1 /\ sar_reports = pre[w].reports
        /\ transactions[fetched[w]].processed
        /\ ReportsFor(fetched[w]) = 0
        /\ stats.suspicious = 1 /\ stats.sars_generated = 0

\* ------------------------------------------------- claims about the threads
\* Transaction t is in the collection, was scored and is processed.
Triaged(t) ==
    /\ t \in DOMAIN transactions
    /\ transactions[t].processed
    /\ TotalScored(t) >= 1

\* C38: with the generator thread inserting transactions while the monitoring
\* thread runs its cycles (scheduled fairly, nothing failing), every inserted
\* transaction is eventually scored and marked processed (a processed
\* transaction stays processed, so this is: again and again everything in
\* the collection has been scored and is processed); and a cycle that
\* fetched a transaction marks that transaction and no other, whatever was
\* inserted while it ran.
C38_InsertedEventuallyTriaged ==
    /\ [](\A w \in active :
            (pc[w] = "END" /\ fetched[w] # 0) =>
                /\ transactions[fetched[w]].processed
                /\ \A u \in DOMAIN transactions :
                      /\ MarkedInCycle(w, u) = (IF u = fetched[w] THEN 1 ELSE 0)
                      /\ u # fetched[w] =>
                            transactions[u].processed =
                                (u \in DOMAIN pre[w].transactions
                                    /\ pre[w].transactions[u].processed))
    /\ []<>(\A t \in DOMAIN transactions : Triaged(t))

\* C38's case: a transaction was inserted while a cycle was running, and the
\* cycle ended with the transaction it had fetched processed and the new one
\* unprocessed.
C38_Witness ==
    \E w \in active :
        /\ pc[w] = "END" /\ fetched[w] # 0
        /\ Len(pre[w].transactions) < Len(transactions)
        /\ transactions[fetched[w]].processed
        /\ ~transactions[Len(transactions)].processed

====
